---- MODULE Spec2Model ----
(***************************************************************************)
(* PermissionManager: role hierarchy flattening, permission closures and   *)
(* the query methods built on the two caches.                              *)
(*                                                                         *)
(* The two static tables are RoleHierarchy (Role -> ordered list of the    *)
(* roles it inherits from) and RoleBasedPermissions (Role -> granted       *)
(* permissions).  The hierarchy table is a variable that never changes     *)
(* after Init, so that the construction can be checked over many tables.   *)
(* A Permission[] that the code only reads through includes()/forEach-add  *)
(* is kept as a sequence for the context and as a set for the grants.      *)
(***************************************************************************)
EXTENDS Integers, Sequences, FiniteSets, TLC

VARIABLES RoleHierarchy, context, cachedRoleHierarchy, cachedRolePermissions,
          phase, keyIdx, stack, visited, ret

vars == <<RoleHierarchy, context, cachedRoleHierarchy, cachedRolePermissions,
          phase, keyIdx, stack, visited, ret>>

(***************************************************************************)
(* Bounds of the model.                                                    *)
(***************************************************************************)
MaxEdges == 4
MaxHeld == 3
MaxRequired == 2
MaxStack == 6

(***************************************************************************)
(* config.ts                                                               *)
(***************************************************************************)
Role == {"super_admin", "admin", "manager", "premium_user", "user"}

Permission == {"product:create", "product:read", "product:update",
               "product:delete", "product:review",
               "user:create", "user:read", "user:update", "user:delete"}

ShippedRoleHierarchy ==
    [r \in Role |->
        CASE r = "super_admin" -> <<"admin">>
          [] r = "admin" -> <<"manager">>
          [] r = "manager" -> <<"premium_user">>
          [] r = "premium_user" -> <<"user">>
          [] OTHER -> <<>>]

RoleBasedPermissions ==
    [r \in Role |->
        CASE r = "super_admin" -> {}
          [] r = "admin" -> {"product:delete", "user:delete"}
          [] r = "manager" -> {"product:create", "product:update",
                               "user:create", "user:update", "user:read"}
          [] r = "premium_user" -> {"product:review"}
          [] OTHER -> {"product:read"}]

\* Object.keys() of the two tables, in insertion order.
HierarchyKeys == <<"super_admin", "admin", "manager", "premium_user", "user">>

PermissionKeys == <<"super_admin", "admin", "manager", "premium_user", "user">>

\* Identifiers that appear in no table.
UnknownRole == "guest"

UnknownPermission == "order:read"

\* The value of an empty reduce seeded with roles[0].
Undefined == "undefined"

(***************************************************************************)
(* Map.get(k) followed by ?. : the stored set, or nothing when k is absent *)
(***************************************************************************)
MapGet(map, k) == IF k \in DOMAIN map THEN map[k] ELSE {}

MapSet(map, k, v) == [x \in (DOMAIN map) \cup {k} |-> IF x = k THEN v ELSE map[x]]

EmptyMap == [x \in {} |-> {}]

\* RoleHierarchy[role] || []
InheritedRoles(role) == IF role \in DOMAIN RoleHierarchy THEN RoleHierarchy[role] ELSE <<>>

(***************************************************************************)
(* Construction: the hierarchy cache.  computeRoleHierarchy is recursive   *)
(* and threads one visited set through its calls; the call stack is kept   *)
(* explicitly, one frame per active call: the role, the position in the    *)
(* forEach over its inherited roles, and the result set built so far.      *)
(***************************************************************************)
Top == stack[Len(stack)]

Frame(role) == [role |-> role, i |-> 1, result |-> {}]

\* constructor, line 20-24: the next key's computeRoleHierarchy(role) is
\* called with a fresh visited set, which then receives the role.
HierarchyBegin ==
    /\ phase = "hierarchy"
    /\ stack = <<>>
    /\ keyIdx <= Len(HierarchyKeys)
    /\ stack' = <<Frame(HierarchyKeys[keyIdx])>>
    /\ visited' = {HierarchyKeys[keyIdx]}
    /\ UNCHANGED <<RoleHierarchy, context, cachedRoleHierarchy,
                   cachedRolePermissions, phase, keyIdx, ret>>

\* Faulty variant: the visited set is never consulted.
GuardedNever(role) == FALSE

\* Is the role already guarded against by the visited set (line 81)?
Guarded(role) == role \in visited

\* One iteration of the forEach: result.add(inheritedRole), then the
\* recursive call.  The callee returns the empty set at once when the role
\* is already visited; otherwise it marks it and starts its own loop.
HierarchyVisit ==
    /\ phase = "hierarchy"
    /\ stack # <<>>
    /\ Top.i <= Len(InheritedRoles(Top.role))
    /\ LET inheritedRole == InheritedRoles(Top.role)[Top.i]
           n == Len(stack)
       IN  IF Guarded(inheritedRole)
           THEN /\ stack' = [stack EXCEPT ![n].result = @ \cup {inheritedRole},
                                          ![n].i = @ + 1]
                /\ visited' = visited
           ELSE /\ n < MaxStack
                /\ stack' = Append([stack EXCEPT ![n].result = @ \cup {inheritedRole}],
                                   Frame(inheritedRole))
                /\ visited' = visited \cup {inheritedRole}
    /\ UNCHANGED <<RoleHierarchy, context, cachedRoleHierarchy,
                   cachedRolePermissions, phase, keyIdx, ret>>

\* Faulty variant: the roles the recursive call returned are dropped.
HierarchyReturnNoMerge ==
    /\ phase = "hierarchy"
    /\ Len(stack) > 1
    /\ Top.i > Len(InheritedRoles(Top.role))
    /\ stack' = [SubSeq(stack, 1, Len(stack) - 1) EXCEPT ![Len(stack) - 1].i = @ + 1]
    /\ UNCHANGED <<RoleHierarchy, context, cachedRoleHierarchy,
                   cachedRolePermissions, phase, keyIdx, visited, ret>>

\* A recursive call returns: the caller adds the returned roles (line 92)
\* and moves to its next inherited role.
HierarchyReturn ==
    /\ phase = "hierarchy"
    /\ Len(stack) > 1
    /\ Top.i > Len(InheritedRoles(Top.role))
    /\ LET n == Len(stack)
       IN  stack' = [SubSeq(stack, 1, n - 1) EXCEPT
                        ![n - 1].result = @ \cup Top.result,
                        ![n - 1].i = @ + 1]
    /\ UNCHANGED <<RoleHierarchy, context, cachedRoleHierarchy,
                   cachedRolePermissions, phase, keyIdx, visited, ret>>

\* The outermost call returns: the constructor caches the set (line 21) and
\* goes on to the next key, or to the permission table after the last one.
HierarchyStore ==
    /\ phase = "hierarchy"
    /\ Len(stack) = 1
    /\ Top.i > Len(InheritedRoles(Top.role))
    /\ cachedRoleHierarchy' = MapSet(cachedRoleHierarchy, Top.role, Top.result)
    /\ stack' = <<>>
    /\ visited' = {}
    /\ IF keyIdx = Len(HierarchyKeys)
       THEN phase' = "permissions" /\ keyIdx' = 1
       ELSE phase' = "hierarchy" /\ keyIdx' = keyIdx + 1
    /\ UNCHANGED <<RoleHierarchy, context, cachedRolePermissions, ret>>

(***************************************************************************)
(* Construction: the permission cache.                                     *)
(***************************************************************************)
\* Faulty variant: the table's direct parents are read, not the cached closure.
computeRolePermissionsParentsOnly(role, seen) ==
    IF role \in seen
    THEN {}
    ELSE RoleBasedPermissions[role]
         \cup UNION {RoleBasedPermissions[InheritedRoles(role)[i]] :
                        i \in DOMAIN InheritedRoles(role)}

computeRolePermissions(role, seen) ==
    IF role \in seen
    THEN {}
    ELSE RoleBasedPermissions[role]
         \cup UNION {RoleBasedPermissions[inheritedRole] :
                        inheritedRole \in MapGet(cachedRoleHierarchy, role)}

PermissionsStep ==
    /\ phase = "permissions"
    /\ keyIdx <= Len(PermissionKeys)
    /\ cachedRolePermissions' =
          MapSet(cachedRolePermissions, PermissionKeys[keyIdx],
                 computeRolePermissions(PermissionKeys[keyIdx], {}))
    /\ IF keyIdx = Len(PermissionKeys)
       THEN phase' = "ready" /\ keyIdx' = 1
       ELSE phase' = "permissions" /\ keyIdx' = keyIdx + 1
    /\ UNCHANGED <<RoleHierarchy, context, cachedRoleHierarchy, stack, visited, ret>>

Construct ==
    \/ HierarchyBegin
    \/ HierarchyVisit
    \/ HierarchyReturn
    \/ HierarchyStore
    \/ PermissionsStep

(***************************************************************************)
(* Query methods.  Array.some / Array.every / Array.reduce are scans from  *)
(* the left; some and every stop at the first deciding element.            *)
(***************************************************************************)
\* Array.includes
Includes(list, x) == \E i \in DOMAIN list : list[i] = x

\* Faulty variant: the role's own grants are read, not its cached closure.
RoleGrantsOwnOnly(role, permission) ==
    role \in Role /\ permission \in RoleBasedPermissions[role]

\* cachedRolePermissions.get(role)?.has(permission)
RoleGrants(role, permission) == permission \in MapGet(cachedRolePermissions, role)

\* Faulty variant: every held role must grant the permission.
RECURSIVE hasPermissionThroughRoleEvery(_, _)
hasPermissionThroughRoleEvery(roles, permission) ==
    IF roles = <<>> THEN TRUE
    ELSE IF ~RoleGrants(Head(roles), permission) THEN FALSE
    ELSE hasPermissionThroughRoleEvery(Tail(roles), permission)

RECURSIVE hasPermissionThroughRole(_, _)
hasPermissionThroughRole(roles, permission) ==
    IF roles = <<>> THEN FALSE
    ELSE IF RoleGrants(Head(roles), permission) THEN TRUE
    ELSE hasPermissionThroughRole(Tail(roles), permission)

\* hasPermission of a manager built over the context ctx.
HasPermissionIn(ctx, requiredPermission) ==
    IF Includes(ctx.permissions, requiredPermission)
    THEN TRUE
    ELSE hasPermissionThroughRole(ctx.roles, requiredPermission)

hasPermission(requiredPermission) == HasPermissionIn(context, requiredPermission)

RECURSIVE hasPermissions(_)
hasPermissions(requiredPermissions) ==
    IF requiredPermissions = <<>> THEN TRUE
    ELSE IF ~hasPermission(Head(requiredPermissions)) THEN FALSE
    ELSE hasPermissions(Tail(requiredPermissions))

\* Faulty variant: some() written as every().
hasAnyPermissionEvery(requiredPermissions) == hasPermissions(requiredPermissions)

RECURSIVE hasAnyPermission(_)
hasAnyPermission(requiredPermissions) ==
    IF requiredPermissions = <<>> THEN FALSE
    ELSE IF hasPermission(Head(requiredPermissions)) THEN TRUE
    ELSE hasAnyPermission(Tail(requiredPermissions))

\* Faulty variant: the hierarchy set is not consulted.
RoleCoversSelfOnly(role, requiredRole) == role = requiredRole

\* hierarchySet?.has(requiredRole) || role === requiredRole
RoleCovers(role, requiredRole) ==
    IF requiredRole \in MapGet(cachedRoleHierarchy, role)
    THEN TRUE
    ELSE role = requiredRole

RECURSIVE HasRoleIn(_, _)
HasRoleIn(roles, requiredRole) ==
    IF roles = <<>> THEN FALSE
    ELSE IF RoleCovers(Head(roles), requiredRole) THEN TRUE
    ELSE HasRoleIn(Tail(roles), requiredRole)

hasRole(requiredRole) == HasRoleIn(context.roles, requiredRole)

\* Faulty variant: the branches of the reducer are exchanged.
MaxStepInverted(maxRole, currentRole) ==
    IF currentRole \in MapGet(cachedRoleHierarchy, maxRole)
    THEN currentRole
    ELSE maxRole

\* Faulty variant: the reducer looks the candidate up in the closure of the
\* role being examined.
MaxStepSwapped(maxRole, currentRole) ==
    IF maxRole \in MapGet(cachedRoleHierarchy, currentRole)
    THEN maxRole
    ELSE currentRole

\* The reducer of getMaxRole.
MaxStep(maxRole, currentRole) ==
    IF currentRole \in MapGet(cachedRoleHierarchy, maxRole)
    THEN maxRole
    ELSE currentRole

RECURSIVE Reduce(_, _)
Reduce(maxRole, roles) ==
    IF roles = <<>> THEN maxRole
    ELSE Reduce(MaxStep(maxRole, Head(roles)), Tail(roles))

\* roles.reduce(reducer, roles[0]); roles[0] of an empty array is undefined.
GetMaxRoleOf(roles) ==
    Reduce(IF roles = <<>> THEN Undefined ELSE roles[1], roles)

getMaxRole == GetMaxRoleOf(context.roles)

(***************************************************************************)
(* Arguments the query actions are called with.                            *)
(***************************************************************************)
SeqsUpTo(S, n) == UNION {[1..k -> S] : k \in 0..n}

QueryPermissions == {"product:read", "product:delete", UnknownPermission}

RequiredLists == {<<>>, <<"product:read">>, <<"product:delete">>,
                  <<"product:read", "product:delete">>,
                  <<"product:delete", "product:read">>}

QueryRoleArgs == {"admin", "user", UnknownRole}

Returned(op, arg, value) == [op |-> op, arg |-> arg, value |-> value]

QueryFrame == UNCHANGED <<RoleHierarchy, context, cachedRoleHierarchy,
                      cachedRolePermissions, phase, keyIdx, stack, visited>>

QueryHasPermission ==
    /\ phase = "ready"
    /\ \E p \in QueryPermissions : ret' = Returned("hasPermission", p, hasPermission(p))
    /\ QueryFrame

QueryHasPermissions ==
    /\ phase = "ready"
    /\ \E ps \in RequiredLists : ret' = Returned("hasPermissions", ps, hasPermissions(ps))
    /\ QueryFrame

QueryHasAnyPermission ==
    /\ phase = "ready"
    /\ \E ps \in RequiredLists :
          ret' = Returned("hasAnyPermission", ps, hasAnyPermission(ps))
    /\ QueryFrame

QueryHasRole ==
    /\ phase = "ready"
    /\ \E r \in QueryRoleArgs : ret' = Returned("hasRole", r, hasRole(r))
    /\ QueryFrame

\* Faulty variant: the seed is taken off the role list with shift().
QueryGetMaxRoleShifting ==
    /\ phase = "ready"
    /\ ret' = Returned("getMaxRole", <<>>, getMaxRole)
    /\ context' = [context EXCEPT !.roles = IF @ = <<>> THEN @ ELSE Tail(@)]
    /\ UNCHANGED <<RoleHierarchy, cachedRoleHierarchy, cachedRolePermissions,
                   phase, keyIdx, stack, visited>>

QueryGetMaxRole ==
    /\ phase = "ready"
    /\ ret' = Returned("getMaxRole", <<>>, getMaxRole)
    /\ QueryFrame

Query ==
    \/ QueryHasPermission
    \/ QueryHasPermissions
    \/ QueryHasAnyPermission
    \/ QueryHasRole
    \/ QueryGetMaxRole

Next == Construct \/ Query

(***************************************************************************)
(* Inputs: hierarchy tables and principal contexts.                        *)
(***************************************************************************)
NoParents == [r \in Role |-> <<>>]

\* The roles a table lets a set of roles inherit from in one step.
ParentsIn(t, S) == UNION {{t[r][i] : i \in DOMAIN t[r]} : r \in S \cap DOMAIN t}

\* The roles reachable in the table t from the set S by one or more edges.
RECURSIVE Grow(_, _)
Grow(t, S) == IF ParentsIn(t, S) \subseteq S THEN S ELSE Grow(t, S \cup ParentsIn(t, S))

ReachableIn(t, r) == Grow(t, ParentsIn(t, {r}))

Reachable(r) == ReachableIn(RoleHierarchy, r)

Acyclic(t) == \A r \in DOMAIN t : r \notin ReachableIn(t, r)

NoRepeat(list) == \A i, j \in DOMAIN list : list[i] = list[j] => i = j

\* Parent lists of at most n roles of S, with or without repeated roles.
ParentLists(S, n, repeats) == {l \in SeqsUpTo(S, n) : repeats \/ NoRepeat(l)}

\* Tables whose inheritance edges run among the roles of the list rs, with
\* at most budget edges in all.
RECURSIVE TablesOver(_, _, _, _)
TablesOver(rs, among, budget, repeats) ==
    IF rs = <<>> THEN {NoParents}
    ELSE UNION {{[t EXCEPT ![Head(rs)] = parents] :
                    t \in TablesOver(Tail(rs), among, budget - Len(parents), repeats)} :
                parents \in ParentLists(among, budget, repeats)}

\* Four roles whose parent lists name a role once, or three roles whose
\* parent lists may name a role again: self-loops, cycles and roles with
\* several parents all occur.
BuildTables ==
    TablesOver(<<"admin", "manager", "premium_user", "user">>,
               {"admin", "manager", "premium_user", "user"}, MaxEdges, FALSE)
    \cup TablesOver(<<"admin", "manager", "user">>,
                    {"admin", "manager", "user"}, MaxEdges, TRUE)

QueryRoles == {"admin", "manager", "user"}

\* Every role of QueryRoles inherits from at most one of them.
QueryTables ==
    {[r \in Role |-> IF r \in QueryRoles THEN f[r] ELSE <<>>] :
        f \in [QueryRoles -> SeqsUpTo(QueryRoles, 1)]}

Contexts(roles, lists) ==
    {[roles |-> rs, permissions |-> ps] : rs \in SeqsUpTo(roles, MaxHeld), ps \in lists}

DirectLists == {<<>>, <<"product:delete">>, <<UnknownPermission>>}

InitWith(tables, contexts) ==
    /\ RoleHierarchy \in tables
    /\ context \in contexts
    /\ cachedRoleHierarchy = EmptyMap
    /\ cachedRolePermissions = EmptyMap
    /\ phase = "hierarchy"
    /\ keyIdx = 1
    /\ stack = <<>>
    /\ visited = {}
    /\ ret = Returned("none", <<>>, FALSE)

Init == InitWith(QueryTables, Contexts(QueryRoles, DirectLists))

Spec == Init /\ [][Next]_vars

InitBuild ==
    InitWith(BuildTables, {[roles |-> <<"admin", "user">>, permissions |-> <<>>]})

SpecBuild == InitBuild /\ [][Next]_vars

\* The constructor runs to completion: no construction step waits forever.
FairSpecBuild == SpecBuild /\ WF_vars(Construct)

\* Acyclic tables over QueryRoles whose roles inherit from up to two others.
MaxTables ==
    {t \in {[r \in Role |-> IF r \in QueryRoles THEN f[r] ELSE <<>>] :
               f \in [QueryRoles -> SeqsUpTo(QueryRoles, 2)]} : Acyclic(t)}

InitMax == InitWith(MaxTables, Contexts(QueryRoles, {<<>>}))

SpecMax == InitMax /\ [][Next]_vars

InitShipped == InitWith({ShippedRoleHierarchy}, Contexts(Role, DirectLists))

SpecShipped == InitShipped /\ [][Next]_vars

(***************************************************************************)
(* Properties.                                                             *)
(***************************************************************************)
Ready == phase = "ready"

Held == {context.roles[i] : i \in DOMAIN context.roles}

AnyPermission == Permission \cup {UnknownPermission}

AnyRole == Role \cup {UnknownRole}

\* What the tables give a role: its own grants and those of every role it
\* inherits from, directly or transitively.
Granted(role) ==
    RoleBasedPermissions[role]
    \cup UNION {RoleBasedPermissions[a] : a \in Reachable(role)}

\* The list with x put in before position k.
Inserted(list, k, x) == SubSeq(list, 1, k - 1) \o <<x>> \o SubSeq(list, k, Len(list))

\* C1: hasPermission(p) is true exactly when p is directly granted to the
\* principal or some held role is granted p by the tables, itself or through
\* the roles it inherits from; otherwise it is false.
C1_HasPermissionExact ==
    Ready =>
        \A p \in AnyPermission :
            hasPermission(p) <=>
                \/ Includes(context.permissions, p)
                \/ \E h \in Held : p \in Granted(h)

C1_Witness ==
    /\ Ready
    /\ ret.op = "hasPermission"
    /\ ret.value = TRUE
    /\ ~Includes(context.permissions, ret.arg)
    /\ \A h \in Held : ret.arg \notin RoleBasedPermissions[h]

\* C2: hasRole(r) is true exactly when r is held or is reachable through the
\* hierarchy from a held role; unknown roles and empty role lists give false.
C2_HasRoleExact ==
    Ready =>
        \A r \in AnyRole :
            hasRole(r) <=> \E h \in Held : r = h \/ r \in Reachable(h)

C2_Witness ==
    /\ Ready
    /\ ret.op = "hasRole"
    /\ ret.value = TRUE
    /\ ret.arg \notin Held

\* A held role that no other held role inherits from.
Maximal(m) == m \in Held /\ \A h \in Held \ {m} : m \notin Reachable(h)

\* Of any two distinct held roles, one inherits from the other.
Comparable == \A g, h \in Held : g = h \/ g \in Reachable(h) \/ h \in Reachable(g)

\* C3 as claimed: over an acyclic table and a non-empty role list, getMaxRole
\* returns a held role that no other held role inherits from.
C3_MaxRoleIsMaximal ==
    (Ready /\ Acyclic(RoleHierarchy) /\ context.roles # <<>>) => Maximal(getMaxRole)

\* C3 amended: over an acyclic table and a non-empty list of pairwise
\* comparable roles, getMaxRole returns a held role that no other held role
\* inherits from.
C3_MaxRoleOfChain ==
    (Ready /\ Acyclic(RoleHierarchy) /\ context.roles # <<>> /\ Comparable)
        => Maximal(getMaxRole)

C3_Witness ==
    /\ Ready
    /\ ret.op = "getMaxRole"
    /\ Comparable
    /\ Cardinality(Held) = 3
    /\ ret.value # context.roles[1]
    /\ \E r \in Role : Len(RoleHierarchy[r]) = 2

\* C4: adding one held role or one direct permission to the context never
\* turns a true hasPermission into false.
C4_HasPermissionMonotonic ==
    Ready =>
        \A p \in AnyPermission :
            hasPermission(p) =>
                /\ \A r \in Role, k \in 1..(Len(context.roles) + 1) :
                      HasPermissionIn(
                          [context EXCEPT !.roles = Inserted(@, k, r)], p)
                /\ \A q \in AnyPermission, k \in 1..(Len(context.permissions) + 1) :
                      HasPermissionIn(
                          [context EXCEPT !.permissions = Inserted(@, k, q)], p)

C4_Witness ==
    /\ Ready
    /\ ret.op = "hasPermission"
    /\ ret.value = TRUE
    /\ Len(context.roles) = 2
    /\ ~hasPermissionThroughRole(<<context.roles[2]>>, ret.arg)
    /\ ~Includes(context.permissions, ret.arg)

\* C5: hasPermissions is hasPermission of every element, hasAnyPermission is
\* hasPermission of at least one; the empty list gives true and false.
C5_AllAndAny ==
    Ready =>
        /\ \A ps \in SeqsUpTo(QueryPermissions, MaxRequired) :
              /\ hasPermissions(ps) <=> \A i \in DOMAIN ps : hasPermission(ps[i])
              /\ hasAnyPermission(ps) <=> \E i \in DOMAIN ps : hasPermission(ps[i])
        /\ hasPermissions(<<>>) = TRUE
        /\ hasAnyPermission(<<>>) = FALSE

C5_Witness ==
    /\ Ready
    /\ ret.op = "hasAnyPermission"
    /\ Len(ret.arg) = 2
    /\ ret.value = TRUE
    /\ ~hasPermission(ret.arg[1])
    /\ ~hasPermissions(ret.arg)

\* C6: every cached hierarchy closure is exactly the set of roles reachable
\* by one or more inheritance edges, and so the cached closures are transitive.
C6_ClosureExact ==
    /\ \A r \in DOMAIN cachedRoleHierarchy : cachedRoleHierarchy[r] = Reachable(r)
    /\ Ready =>
          \A r \in DOMAIN cachedRoleHierarchy :
              \A a \in cachedRoleHierarchy[r] :
                  MapGet(cachedRoleHierarchy, a) \subseteq cachedRoleHierarchy[r]

\* A role with two parents that share an ancestor.
C6_Witness ==
    /\ Ready
    /\ \E r \in Role :
          /\ Len(RoleHierarchy[r]) = 2
          /\ RoleHierarchy[r][1] # RoleHierarchy[r][2]
          /\ \E c \in Role \ {r, RoleHierarchy[r][1], RoleHierarchy[r][2]} :
                /\ c \in cachedRoleHierarchy[RoleHierarchy[r][1]]
                /\ c \in cachedRoleHierarchy[RoleHierarchy[r][2]]
                /\ c \in cachedRoleHierarchy[r]

\* C7: a cached permission closure contains the role's own grants and the
\* cached permission closure of every role in its cached hierarchy closure.
C7_PermissionClosureSuperset ==
    Ready =>
        \A r \in DOMAIN cachedRolePermissions :
            /\ RoleBasedPermissions[r] \subseteq cachedRolePermissions[r]
            /\ \A a \in MapGet(cachedRoleHierarchy, r) :
                  MapGet(cachedRolePermissions, a) \subseteq cachedRolePermissions[r]

C7_Witness ==
    /\ Ready
    /\ \E r \in DOMAIN cachedRolePermissions :
          \E a \in cachedRoleHierarchy[r] :
              /\ a \notin {RoleHierarchy[r][i] : i \in DOMAIN RoleHierarchy[r]}
              /\ cachedRolePermissions[a] # {}
              /\ ~(cachedRolePermissions[a] \subseteq RoleBasedPermissions[r])

AllCached ==
    /\ DOMAIN cachedRoleHierarchy = {HierarchyKeys[i] : i \in DOMAIN HierarchyKeys}
    /\ DOMAIN cachedRolePermissions = {PermissionKeys[i] : i \in DOMAIN PermissionKeys}

\* C8: construction ends, whatever the table (self-loops and longer cycles
\* included), with an entry in each cache for every key of its table.
C8_ConstructionEnds == <>(Ready /\ AllCached)

C8_Witness ==
    /\ Ready
    /\ AllCached
    /\ \E r \in Role : r \in {RoleHierarchy[r][i] : i \in DOMAIN RoleHierarchy[r]}
    /\ \E r \in Role : \E a \in Reachable(r) \ {r} : r \in Reachable(a)

\* C9: once construction is over, no step changes the caches or the context,
\* and every query keeps the result it had before the step.
C9_QueriesArePure ==
    [][Ready =>
          /\ UNCHANGED <<cachedRoleHierarchy, cachedRolePermissions, context>>
          /\ \A p \in AnyPermission : hasPermission(p)' = hasPermission(p)
          /\ \A ps \in RequiredLists :
                /\ hasPermissions(ps)' = hasPermissions(ps)
                /\ hasAnyPermission(ps)' = hasAnyPermission(ps)
          /\ \A r \in AnyRole : hasRole(r)' = hasRole(r)
          /\ getMaxRole' = getMaxRole]_vars

C9_Witness ==
    /\ Ready
    /\ ret.op = "getMaxRole"
    /\ Len(context.roles) > 1
    /\ ret.value # context.roles[1]

\* The lists that hold the same roles as the list, as often, in any order.
Orderings(list) ==
    {[i \in DOMAIN list |-> list[f[i]]] :
        f \in {g \in [DOMAIN list -> DOMAIN list] :
                  \A i, j \in DOMAIN list : g[i] = g[j] => i = j}}

\* C10: with the shipped hierarchy getMaxRole does not depend on the order
\* of the held roles, and every other held role is inherited by its result.
C10_ShippedMaxRole ==
    (Ready /\ context.roles # <<>>) =>
        /\ \A q \in Orderings(context.roles) : GetMaxRoleOf(q) = getMaxRole
        /\ getMaxRole \in Held
        /\ \A h \in Held \ {getMaxRole} : h \in ReachableIn(ShippedRoleHierarchy, getMaxRole)

C10_Witness ==
    /\ Ready
    /\ ret.op = "getMaxRole"
    /\ Len(context.roles) = 3
    /\ Cardinality(Held) = 2
    /\ context.roles[1] = context.roles[3]
    /\ ret.value = context.roles[2]

====
